---- MODULE Spec2Model ----
(***************************************************************************)
(* Entropic Regression model structure selection (class ER): the fit-time  *)
(* driver, the permutation tolerance estimate, the forward selector and    *)
(* the backward eliminator, for the Polynomial basis.                      *)
(*                                                                         *)
(* The k-nearest-neighbour statistics are real numbers computed from the   *)
(* data.  Here a data set is described by the conditional mutual           *)
(* information each design-matrix column carries about y (gain), the       *)
(* mutual information of a projection is the sum of the gains of its       *)
(* columns, and the mutual information of y with a permutation of y is a   *)
(* value drawn when the generator is advanced.  A statistic is an integer  *)
(* or the value NaN; -inf is the filler of the forward candidate vector.   *)
(***************************************************************************)
EXTENDS Integers, Sequences, FiniteSets, TLC

\* ------------------------------------------------------------------ bounds
NReg == 3
MaxPerm == 2
MaxFits == 2

\* --------------------------------------------------------- special values
NaN == 9999
NegInf == -9999

\* statistics of the data (NaN: no finite term in the nanmean)
GainVals == {NaN, -2, 2, 4}
\* mutual information of y with a permutation of y
PermVals == {NaN, -4, 0}
\* coefficients returned by the estimator, and the pruning threshold h
CoefVals == {1, 5}
H == 2
\* q is QNum / QDen
QDen == 2
QNums == {1, 2}

Cols == 0 .. (NReg - 1)

VARIABLES
    skip_forward, n_perm, q, gain,
    pc, fits, rng,
    ksg_estimation, tol, estimated_tolerance,
    selected_terms, ix, success, stop_criteria, ksg_max,
    piv, min_value,
    final_model, self_final_model, theta, n_terms, err, pivv,
    \* observations of the current fit call
    tol_estimations, draws, calls, fwd_result, fwd_rounds,
    last_residual, last_max,
    bwd_input, bwd_piv_in, bwd_evals, bwd_rounds,
    composed, est_cols, theta_full, pruned,
    \* result of the previous fit call on this instance
    prev_final_model, prev_theta, prev_cols, prev_theta_full,
    \* the arguments of a constructor call and its outcome
    ctor_args, ctor_result,
    \* one call of a k-nearest-neighbour estimator: its position, its
    \* arguments, the sorted joint distances, the selected columns, the
    \* radius of every point and the marginal neighbour counts
    knn_pc, knn_in, smallest_distance, idx, epsilon, knn_counts,
    \* one call of NARXNN.predict: its position, its arguments, the method
    \* it dispatched to, the number of predicted values produced so far and
    \* the exception raised
    pr_pc, pr_in, pr_method, pr_written, pr_error,
    \* the n-steps-ahead loop: its index i, the current value of its local
    \* steps_ahead, and what each entry of the output array yhat holds
    pr_i, pr_steps, pr_yhat,
    \* one NARXNN instance and its fit calls: the validated attributes, the
    \* arguments of the current call, its position, the number of fit calls,
    \* the loop variables epoch and batch, the number of optimizer steps
    \* taken on the network, whether train_loss and val_loss exist, and
    \* the two lists
    nn_pc, nn_self, nn_args, nn_fits, nn_epoch, nn_batch, nn_opt_steps,
    nn_assigned, train_loss, val_loss

ctorVars == <<ctor_args, ctor_result>>
knnVars == <<knn_pc, knn_in, smallest_distance, idx, epsilon, knn_counts>>
prVars == <<pr_pc, pr_in, pr_method, pr_written, pr_error, pr_i, pr_steps,
           pr_yhat>>
nnVars == <<nn_pc, nn_self, nn_args, nn_fits, nn_epoch, nn_batch,
           nn_opt_steps, nn_assigned, train_loss, val_loss>>
cfgVars == <<skip_forward, n_perm, q, gain, ctorVars, knnVars, prVars,
             nnVars>>
tolVars == <<ksg_estimation, tol, estimated_tolerance>>
fwdVars == <<selected_terms, ix, success, stop_criteria, ksg_max>>
bwdVars == <<piv, min_value>>
resVars == <<final_model, self_final_model, theta, n_terms, err, pivv>>
obsTol == <<tol_estimations, draws>>
obsFwd == <<fwd_result, fwd_rounds, last_residual, last_max>>
obsBwd == <<bwd_input, bwd_piv_in, bwd_evals, bwd_rounds>>
obsRes == <<composed, est_cols, theta_full, pruned>>
prevVars == <<prev_final_model, prev_theta, prev_cols, prev_theta_full>>

\* the variables of an ER instance and of its fit calls
erVars == <<skip_forward, n_perm, q, gain, pc, fits, rng, tolVars, fwdVars,
            bwdVars, resVars, obsTol, calls, obsFwd, obsBwd, obsRes,
            prevVars>>
\* the variables of the fitted instances
fitVars == <<erVars, nnVars>>
vars == <<cfgVars, pc, fits, rng, tolVars, fwdVars, bwdVars, resVars,
          obsTol, calls, obsFwd, obsBwd, obsRes, prevVars>>

\* ------------------------------------------------------- float arithmetic
IsNaN(x) == x = NaN

\* a <= b on floats: false when either side is NaN
Leq(a, b) == ~IsNaN(a) /\ ~IsNaN(b) /\ a <= b

\* a > b on floats: false when either side is NaN
Gt(a, b) == ~IsNaN(a) /\ ~IsNaN(b) /\ a > b

\* a - b on floats
Sub(a, b) == IF IsNaN(a) \/ IsNaN(b) THEN NaN ELSE a - b

Abs(x) == IF x < 0 THEN -x ELSE x

Max2(a, b) == IF a >= b THEN a ELSE b

Range(s) == {s[i] : i \in DOMAIN s}

\* list(range(n))
RangeList(n) == [i \in 1 .. n |-> i - 1]

RECURSIVE SumGain(_, _)
SumGain(g, S) ==
    IF S = {} THEN 0
    ELSE LET c == CHOOSE x \in S : TRUE
             r == SumGain(g, S \ {c})
         IN IF IsNaN(g[c]) \/ IsNaN(r) THEN NaN ELSE g[c] + r

\* mutual information of y and the projection of y onto the columns S
MutualInformation(g, S) == SumGain(g, S)

\* conditional mutual information of y and the projection onto A, given the
\* projection onto A without column c
ConditionalMI(g, c) == g[c]

\* ---------------------------------------------------------------- quantile
RECURSIVE Insert(_, _)
Insert(s, x) ==
    IF s = <<>> THEN <<x>>
    ELSE IF x <= Head(s) THEN <<x>> \o s
    ELSE <<Head(s)>> \o Insert(Tail(s), x)

RECURSIVE SortAsc(_)
SortAsc(s) == IF s = <<>> THEN <<>> ELSE Insert(SortAsc(Tail(s)), Head(s))

\* np.quantile(a, qn / QDen), linear interpolation; NaN if a holds a NaN
Quantile(a, qn) ==
    IF \E i \in DOMAIN a : IsNaN(a[i]) THEN NaN
    ELSE LET s == SortAsc(a)
             pos == (Len(a) - 1) * qn
             lo == pos \div QDen
             fr == pos % QDen
         IN IF fr = 0 THEN s[lo + 1]
            ELSE (s[lo + 1] * QDen + fr * (s[lo + 2] - s[lo + 1])) \div QDen

\* ------------------------------------------------------------------- Init
EmptyObs ==
    /\ tol_estimations = 0 /\ draws = 0 /\ calls = <<>>
    /\ fwd_result = <<>> /\ fwd_rounds = 0
    /\ last_residual = NaN /\ last_max = NaN
    /\ bwd_input = <<>> /\ bwd_piv_in = <<>> /\ bwd_evals = 0 /\ bwd_rounds = 0
    /\ composed = <<>> /\ est_cols = <<>> /\ theta_full = <<>> /\ pruned = FALSE

\* a Python value: its type and, for a number, its value (the integer of an
\* int or bool, the number of 1/QDen of a float)
PyVal(t, v) == [t |-> t, v |-> v]

\* the arguments of a constructor call that passes the validation
ValidArgs ==
    [ylag |-> PyVal("int", 2), xlag |-> PyVal("int", 2),
     k |-> PyVal("int", 2), n_perm |-> PyVal("int", 2),
     q |-> PyVal("float", 1), skip_forward |-> PyVal("bool", 0),
     extended_least_squares |-> PyVal("bool", 0), model_type |-> "NARMAX"]

\* no constructor call is being examined
CtorIdle == ctor_args = ValidArgs /\ ctor_result = "ok"

\* the attributes and locals of an instance on which fit was not called
FreshInstance ==
    /\ pc = "idle" /\ fits = 0 /\ rng = 0
    /\ ksg_estimation = <<>> /\ tol = 0 /\ estimated_tolerance = 0
    /\ selected_terms = <<>> /\ ix = <<>> /\ success = FALSE
    /\ stop_criteria = FALSE /\ ksg_max = 0
    /\ piv = <<>> /\ min_value = NegInf
    /\ final_model = <<>> /\ self_final_model = <<>> /\ theta = <<>>
    /\ n_terms = 0 /\ err = <<>> /\ pivv = <<>>
    /\ EmptyObs
    /\ prev_final_model = <<>> /\ prev_theta = <<>>
    /\ prev_cols = <<>> /\ prev_theta_full = <<>>

\* no estimator call is being examined
KnnIdle ==
    /\ knn_pc = "off" /\ knn_in = <<>> /\ smallest_distance = <<>>
    /\ idx = <<>> /\ epsilon = <<>> /\ knn_counts = <<>>

\* no predict call is being examined
PredictIdle ==
    /\ pr_pc = "off" /\ pr_in = <<>> /\ pr_method = "none"
    /\ pr_written = 0 /\ pr_error = "none"
    /\ pr_i = 0 /\ pr_steps = 0 /\ pr_yhat = <<>>

\* no NARXNN instance is being trained
TrainIdle ==
    /\ nn_pc = "off" /\ nn_self = <<>> /\ nn_args = <<>> /\ nn_fits = 0
    /\ nn_epoch = 0 /\ nn_batch = 0 /\ nn_opt_steps = 0
    /\ nn_assigned = FALSE /\ train_loss = <<>> /\ val_loss = <<>>

\* an instance that is not being fitted
FitIdle ==
    /\ skip_forward = FALSE /\ n_perm = 1 /\ q = QDen
    /\ gain = [c \in Cols |-> 0]
    /\ FreshInstance

Init ==
    /\ skip_forward \in BOOLEAN
    /\ n_perm \in 1 .. MaxPerm
    /\ q \in QNums
    /\ gain \in [Cols -> GainVals]
    /\ FreshInstance
    /\ CtorIdle
    /\ KnnIdle
    /\ PredictIdle
    /\ TrainIdle

\* -------------------------------------------------------------- fit: start
\* fit, up to the start of the permutation loop.  The observations of the
\* call are reset and the fitted attributes of the previous call are kept
\* for comparison.
FitStart ==
    /\ pc \in {"idle", "done", "raised", "no_y"}
    /\ fits < MaxFits
    /\ fits' = fits + 1
    /\ tol' = 0
    /\ ksg_estimation' = <<>>
    /\ pc' = "fit_permute"
    /\ tol_estimations' = 0 /\ draws' = 0 /\ calls' = <<>>
    /\ fwd_result' = <<>> /\ fwd_rounds' = 0
    /\ last_residual' = NaN /\ last_max' = NaN
    /\ bwd_input' = <<>> /\ bwd_piv_in' = <<>>
    /\ bwd_evals' = 0 /\ bwd_rounds' = 0
    /\ composed' = <<>> /\ est_cols' = <<>> /\ theta_full' = <<>>
    /\ pruned' = FALSE
    /\ prev_final_model' = self_final_model /\ prev_theta' = theta
    /\ prev_cols' = est_cols /\ prev_theta_full' = theta_full
    \* the locals of a call are fresh
    /\ selected_terms' = <<>> /\ ix' = <<>> /\ success' = FALSE
    /\ stop_criteria' = FALSE /\ ksg_max' = 0
    /\ piv' = <<>> /\ min_value' = NegInf /\ final_model' = <<>>
    /\ UNCHANGED <<cfgVars, rng, estimated_tolerance, self_final_model,
                   theta, n_terms, err, pivv>>

\* variant: the test of y comes after the first assignments of fit
FitNoY_Late ==
    /\ pc \in {"idle", "done", "raised"}
    /\ pc' = "no_y"
    /\ tol' = 0
    /\ UNCHANGED <<cfgVars, fits, rng, ksg_estimation, estimated_tolerance,
                   fwdVars, bwdVars, resVars, obsTol, calls, obsFwd, obsBwd,
                   obsRes, prevVars>>

\* fit called with y = None: ValueError at the first statement
FitNoY ==
    /\ pc \in {"idle", "done", "raised"}
    /\ pc' = "no_y"
    /\ UNCHANGED <<cfgVars, fits, rng, tolVars, fwdVars, bwdVars, resVars,
                   obsTol, calls, obsFwd, obsBwd, obsRes, prevVars>>

\* one pass of the permutation loop of fit: self.rng.permutation(y) advances
\* the generator, the estimate of the permuted pair is appended
FitPermute ==
    /\ pc = "fit_permute"
    /\ Len(ksg_estimation) < n_perm
    /\ \E v \in PermVals : ksg_estimation' = Append(ksg_estimation, v)
    /\ rng' = rng + 1
    /\ draws' = draws + 1
    /\ UNCHANGED <<cfgVars, pc, fits, tol, estimated_tolerance, fwdVars,
                   bwdVars, resVars, tol_estimations, calls, obsFwd, obsBwd,
                   obsRes, prevVars>>

\* variant: the fallback is taken only when the forward selector is skipped
UseAllColumns_SkipOnly(succ, skip) == skip

\* fallback test of fit: all columns are the candidates of the backward phase
UseAllColumns(succ, skip) == ~succ \/ skip

\* call of entropic_regression_backward(reg_matrix[:, sel], y,
\* list(range(len(sel)))): its first three statements
BackwardEntry(sel) ==
    /\ selected_terms' = sel
    /\ bwd_input' = sel
    /\ bwd_piv_in' = RangeList(Len(sel))
    /\ piv' = RangeList(Len(sel))
    /\ min_value' = NegInf
    /\ ix' = <<>>
    /\ bwd_evals' = 0 /\ bwd_rounds' = 0
    /\ calls' = Append(calls, "backward")
    /\ pc' = "backward"

\* end of the permutation loop of fit: the quantile, estimated_tolerance,
\* and the choice between the forward selector and the fallback
FitTolerance ==
    /\ pc = "fit_permute"
    /\ Len(ksg_estimation) = n_perm
    /\ tol' = Quantile(ksg_estimation, q)
    /\ estimated_tolerance' = tol'
    /\ tol_estimations' = tol_estimations + 1
    /\ IF ~skip_forward
       THEN \* entropic_regression_forward up to its tolerance_estimator call
            /\ success' = TRUE
            /\ ix' = <<>>
            /\ selected_terms' = <<>>
            /\ ksg_estimation' = <<>>
            /\ calls' = Append(calls, "forward")
            /\ pc' = "fwd_permute"
            /\ UNCHANGED <<bwdVars, obsBwd>>
       ELSE /\ success' = FALSE
            /\ UseAllColumns(FALSE, skip_forward)
            /\ BackwardEntry(RangeList(NReg))
            /\ ksg_estimation' = <<>>
    /\ UNCHANGED <<cfgVars, fits, rng, stop_criteria, ksg_max, resVars, draws,
                   obsFwd, obsRes, prevVars>>

\* ------------------------------------------------------- forward selector
\* one pass of the loop of tolerance_estimator
ForwardPermute ==
    /\ pc = "fwd_permute"
    /\ Len(ksg_estimation) < n_perm
    /\ \E v \in PermVals : ksg_estimation' = Append(ksg_estimation, v)
    /\ rng' = rng + 1
    /\ draws' = draws + 1
    /\ UNCHANGED <<cfgVars, pc, fits, tol, estimated_tolerance, fwdVars,
                   bwdVars, resVars, tol_estimations, calls, obsFwd, obsBwd,
                   obsRes, prevVars>>

\* return of tolerance_estimator into self.tol, then ksg_max
ForwardTolerance ==
    /\ pc = "fwd_permute"
    /\ Len(ksg_estimation) = n_perm
    /\ tol' = Quantile(ksg_estimation, q)
    /\ tol_estimations' = tol_estimations + 1
    /\ ksg_max' = MutualInformation(gain, Cols)
    /\ stop_criteria' = FALSE
    /\ ksg_estimation' = <<>>
    /\ pc' = "forward"
    /\ UNCHANGED <<cfgVars, fits, rng, estimated_tolerance,
                   selected_terms, ix, success, bwdVars, resVars, draws, calls,
                   obsFwd, obsBwd, obsRes, prevVars>>

\* initial_vector of a round: -inf for a selected column, the conditional
\* mutual information of the candidate otherwise
InitialVector(sel) ==
    [i \in Cols |-> IF i \in Range(sel) THEN NegInf
                    ELSE ConditionalMI(gain, i)]

\* np.nanargmax: NaN counts as -inf, first index of the maximum
NanArgmax(v) ==
    LET w == [i \in DOMAIN v |-> IF IsNaN(v[i]) THEN NegInf ELSE v[i]]
    IN CHOOSE i \in DOMAIN v :
          /\ \A j \in DOMAIN v : w[j] <= w[i]
          /\ \A j \in DOMAIN v : j < i => w[j] < w[i]

\* variant: strict comparisons in the stop test
StopTest_Strict(residual, max_value, t) == Gt(t, residual) \/ Gt(t, max_value)

\* the stop test of a forward round
StopTest(residual, max_value, t) == Leq(residual, t) \/ Leq(max_value, t)

\* variant: the size guard fires at the threshold
SizeGuard_AtThreshold(sel) == 2 * Len(sel) >= Max2(16, NReg)

\* variant: the size guard lets one more round run
SizeGuard_Late(sel) == 2 * Len(sel) > Max2(16, NReg) + 2

\* the size guard of a forward round: len(sel) > max(8, n_regressors / 2)
SizeGuard(sel) == 2 * Len(sel) > Max2(16, NReg)

\* selected_terms at the top of a round: the winner of the previous round
\* is appended (nothing in the first round, where ix = [])
GrowSelected(sel, lastix) == sel \o lastix

\* one round of the while loop of entropic_regression_forward
ForwardRound ==
    /\ pc = "forward"
    /\ stop_criteria = FALSE
    /\ LET sel == GrowSelected(selected_terms, ix)
           ksg_local == MutualInformation(gain, Range(sel))
           initial_vector == InitialVector(sel)
       IN /\ selected_terms' = sel
          /\ fwd_rounds' = fwd_rounds + 1
          /\ IF \A i \in Cols : IsNaN(initial_vector[i])
             THEN \* np.nanargmax raises ValueError (all-NaN slice)
                  /\ pc' = "raised"
                  /\ UNCHANGED <<ix, success, stop_criteria, last_residual,
                                 last_max>>
             ELSE LET ixn == NanArgmax(initial_vector)
                      max_value == initial_vector[ixn]
                      residual == Sub(ksg_max, ksg_local)
                  IN /\ ix' = <<ixn>>
                     /\ last_residual' = residual
                     /\ last_max' = max_value
                     /\ IF StopTest(residual, max_value, tol)
                        THEN stop_criteria' = TRUE /\ UNCHANGED success
                        ELSE IF SizeGuard(sel)
                        THEN stop_criteria' = TRUE /\ success' = FALSE
                        ELSE UNCHANGED <<stop_criteria, success>>
                     /\ UNCHANGED pc
    /\ UNCHANGED <<cfgVars, fits, rng, tolVars, ksg_max, bwdVars, resVars,
                   obsTol, calls, fwd_result, obsBwd, obsRes, prevVars>>

\* return of entropic_regression_forward into fit, the fallback to all
\* columns, and the call of the backward eliminator
ForwardReturn ==
    /\ pc = "forward"
    /\ stop_criteria = TRUE
    /\ fwd_result' = selected_terms
    /\ IF UseAllColumns(success, skip_forward)
       THEN BackwardEntry(RangeList(NReg))
       ELSE BackwardEntry(selected_terms)
    /\ UNCHANGED <<cfgVars, fits, rng, tolVars, success, stop_criteria,
                   ksg_max, resVars, obsTol, fwd_rounds, last_residual,
                   last_max, obsRes, prevVars>>

\* ---------------------------------------------------- backward eliminator
\* variant: the loop runs while piv is not empty
BackwardLoopTest_NonEmpty(mv, t, p) == Leq(mv, t) /\ Len(p) > 0

\* the test of the while loop of entropic_regression_backward
BackwardLoopTest(mv, t, p) == Leq(mv, t) /\ Len(p) > 1

\* initial_array of a round: the removal statistic of every position of piv
\* (piv holds positions into the candidate columns cand)
InitialArray(cand, p) ==
    [i \in 1 .. Len(p) |-> ConditionalMI(gain, cand[p[i] + 1])]

\* np.argmin: the first NaN if there is one, else the first minimum
Argmin(a) ==
    IF \E i \in DOMAIN a : IsNaN(a[i])
    THEN CHOOSE i \in DOMAIN a :
            IsNaN(a[i]) /\ \A j \in DOMAIN a : j < i => ~IsNaN(a[j])
    ELSE CHOOSE i \in DOMAIN a :
            /\ \A j \in DOMAIN a : a[i] <= a[j]
            /\ \A j \in DOMAIN a : j < i => a[i] < a[j]

\* np.delete(p, i), i a 1-based position
Delete(p, i) == [j \in 1 .. (Len(p) - 1) |-> IF j < i THEN p[j] ELSE p[j + 1]]

\* piv after the round whose statistics are a
BackwardRemove(p, a) == Delete(p, Argmin(a))

\* one round of the while loop of entropic_regression_backward
BackwardRound ==
    /\ pc = "backward"
    /\ BackwardLoopTest(min_value, tol, piv)
    /\ LET initial_array == InitialArray(bwd_input, piv)
       IN /\ min_value' = initial_array[Argmin(initial_array)]
          /\ piv' = BackwardRemove(piv, initial_array)
          /\ bwd_evals' = bwd_evals + Len(piv)
    /\ bwd_rounds' = bwd_rounds + 1
    /\ UNCHANGED <<cfgVars, pc, fits, rng, tolVars, fwdVars, resVars, obsTol,
                   calls, obsFwd, bwd_input, bwd_piv_in, obsRes, prevVars>>

\* variant: the result of the backward phase is taken as column indices
Compose_Positions(sel, p) == p

\* selected_terms[selected_terms_backward]
Compose(sel, p) == [i \in 1 .. Len(p) |-> sel[p[i] + 1]]

\* variant: no re-check for the constant term
WithConstant_NoRecheck(fm) == fm

\* variant: the constant term is added after the other indices
WithConstant_Last(fm) == IF 0 \in Range(fm) THEN fm ELSE fm \o <<0>>

\* the re-check for the constant term
WithConstant(fm) == IF 0 \in Range(fm) THEN fm ELSE <<0>> \o fm

\* row i of regressor_code: the constant term is the zero row
RegressorCode(i) == IF i = 0 THEN 0 ELSE 1000 + i

\* regressor_code[final_model, :]
CodeRows(fm) == [i \in 1 .. Len(fm) |-> RegressorCode(fm[i])]

\* return of entropic_regression_backward into fit, the composition of the
\* final index set, the constant term and self.final_model
BackwardReturn ==
    /\ pc = "backward"
    /\ ~BackwardLoopTest(min_value, tol, piv)
    /\ IF bwd_piv_in = <<>>
       THEN \* np.array([]) is a float array: indexing with it raises
            \* IndexError
            /\ pc' = "raised"
            /\ UNCHANGED <<final_model, self_final_model, composed>>
       ELSE /\ composed' = Compose(selected_terms, piv)
            /\ final_model' = WithConstant(composed')
            /\ self_final_model' = CodeRows(final_model')
            /\ pc' = "estimate"
    /\ UNCHANGED <<cfgVars, fits, rng, tolVars, fwdVars, bwdVars, theta,
                   n_terms, err, pivv, obsTol, calls, obsFwd, obsBwd,
                   est_cols, theta_full, pruned, prevVars>>

\* ------------------------------------------------- estimation and pruning
\* variant: the pruning does not count the non-zero coefficients
PruneTest_NoCount(th) == Abs(th[1]) < H

\* the test of the post-hoc pruning
PruneTest(th) ==
    Abs(th[1]) < H /\ Cardinality({i \in DOMAIN th : th[i] # 0}) > 1

\* variant: the pruning trims theta but leaves self.final_model as it was
Estimate_StaleModel ==
    /\ pc = "estimate"
    /\ est_cols' = final_model
    /\ \E th \in [1 .. Len(final_model) -> CoefVals] :
          /\ final_model = prev_cols => th = prev_theta_full
          /\ theta_full' = th
          /\ IF PruneTest(th)
             THEN /\ theta' = Tail(th)
                  /\ final_model' = Tail(final_model)
                  /\ pruned' = TRUE
             ELSE /\ theta' = th
                  /\ pruned' = FALSE
                  /\ UNCHANGED final_model
    /\ UNCHANGED self_final_model
    /\ n_terms' = Len(theta')
    /\ err' = [i \in 1 .. n_terms' |-> 0]
    /\ pivv' = final_model'
    /\ pc' = "done"
    /\ UNCHANGED <<cfgVars, fits, rng, tolVars, fwdVars, bwdVars, obsTol,
                   calls, obsFwd, obsBwd, composed, prevVars>>

\* the estimator call, the post-hoc pruning and the fitted attributes.  The
\* estimator is a function of its arguments: on the columns of the previous
\* call it returns the coefficients of the previous call.
Estimate ==
    /\ pc = "estimate"
    /\ est_cols' = final_model
    /\ \E th \in [1 .. Len(final_model) -> CoefVals] :
          /\ final_model = prev_cols => th = prev_theta_full
          /\ theta_full' = th
          /\ IF PruneTest(th)
             THEN /\ theta' = Tail(th)
                  /\ self_final_model' = Tail(self_final_model)
                  /\ final_model' = Tail(final_model)
                  /\ pruned' = TRUE
             ELSE /\ theta' = th
                  /\ pruned' = FALSE
                  /\ UNCHANGED <<self_final_model, final_model>>
    /\ n_terms' = Len(theta')
    /\ err' = [i \in 1 .. n_terms' |-> 0]
    /\ pivv' = final_model'
    /\ pc' = "done"
    /\ UNCHANGED <<cfgVars, fits, rng, tolVars, fwdVars, bwdVars, obsTol,
                   calls, obsFwd, obsBwd, composed, prevVars>>

\* ---------------------------------------------------------- specification
Next ==
    \/ FitStart
    \/ FitNoY
    \/ FitPermute
    \/ FitTolerance
    \/ ForwardPermute
    \/ ForwardTolerance
    \/ ForwardRound
    \/ ForwardReturn
    \/ BackwardRound
    \/ BackwardReturn
    \/ Estimate

Spec == Init /\ [][Next]_vars

\* the selection phase of one fit call.  fit is a sequential computation:
\* once called it keeps executing until it returns or raises.
SelectionStep ==
    \/ FitPermute \/ FitTolerance \/ ForwardPermute \/ ForwardTolerance
    \/ ForwardRound \/ ForwardReturn \/ BackwardRound \/ BackwardReturn

FirstFit == fits = 0 /\ FitStart

SelectionNext == FirstFit \/ SelectionStep

SpecSelection == Init /\ [][SelectionNext]_vars /\ WF_vars(SelectionStep)

\* ------------------------------- forward selector on a wider design matrix
\* The forward selector alone, entered with the tolerance already estimated,
\* on a design matrix whose column count is at the threshold of the size
\* guard.
NRegWide == 9

WideCols == 0 .. (NRegWide - 1)

\* statistics of the columns, and values of self.tol after line 358
WideGainVals == {NaN, -2, 2}
WideTolVals == {NaN, 0, 2}

\* entropic_regression_forward after its first statements (lines 354-361)
InitWide ==
    /\ pc = "forward"
    /\ gain \in [WideCols -> WideGainVals]
    /\ tol \in WideTolVals
    /\ ksg_max = MutualInformation(gain, WideCols)
    /\ success = TRUE /\ ix = <<>> /\ selected_terms = <<>>
    /\ stop_criteria = FALSE
    /\ calls = <<"forward">>
    /\ skip_forward = FALSE /\ n_perm = 1 /\ q = QDen
    /\ fits = 1 /\ rng = 0
    /\ ksg_estimation = <<>> /\ estimated_tolerance = 0
    /\ piv = <<>> /\ min_value = NegInf
    /\ final_model = <<>> /\ self_final_model = <<>> /\ theta = <<>>
    /\ n_terms = 0 /\ err = <<>> /\ pivv = <<>>
    /\ tol_estimations = 0 /\ draws = 0
    /\ fwd_result = <<>> /\ fwd_rounds = 0
    /\ last_residual = NaN /\ last_max = NaN
    /\ bwd_input = <<>> /\ bwd_piv_in = <<>> /\ bwd_evals = 0 /\ bwd_rounds = 0
    /\ composed = <<>> /\ est_cols = <<>> /\ theta_full = <<>> /\ pruned = FALSE
    /\ prev_final_model = <<>> /\ prev_theta = <<>>
    /\ prev_cols = <<>> /\ prev_theta_full = <<>>
    /\ CtorIdle
    /\ KnnIdle
    /\ PredictIdle
    /\ TrainIdle

\* initial_vector of a round on the wide matrix
WideInitialVector(sel) ==
    [i \in WideCols |-> IF i \in Range(sel) THEN NegInf
                        ELSE ConditionalMI(gain, i)]

\* variant: the size guard is tested before the stop test
RoundOutcome_GuardFirst(stop, guard) ==
    IF guard THEN "fail" ELSE IF stop THEN "stop" ELSE "continue"

\* the if / elif at the end of a round: the stop test comes first
RoundOutcome(stop, guard) ==
    IF stop THEN "stop" ELSE IF guard THEN "fail" ELSE "continue"

\* one round of the while loop of entropic_regression_forward
WideForwardRound ==
    /\ pc = "forward"
    /\ stop_criteria = FALSE
    /\ LET sel == selected_terms \o ix
           ksg_local == MutualInformation(gain, Range(sel))
           initial_vector == WideInitialVector(sel)
       IN /\ selected_terms' = sel
          /\ fwd_rounds' = fwd_rounds + 1
          /\ IF \A i \in WideCols : IsNaN(initial_vector[i])
             THEN \* np.nanargmax raises ValueError (all-NaN slice)
                  /\ pc' = "raised"
                  /\ UNCHANGED <<ix, success, stop_criteria, last_residual,
                                 last_max>>
             ELSE LET ixn == NanArgmax(initial_vector)
                      max_value == initial_vector[ixn]
                      residual == Sub(ksg_max, ksg_local)
                      outcome ==
                          RoundOutcome(
                              Leq(residual, tol) \/ Leq(max_value, tol),
                              2 * Len(sel) > Max2(16, NRegWide))
                  IN /\ ix' = <<ixn>>
                     /\ last_residual' = residual
                     /\ last_max' = max_value
                     /\ stop_criteria' = (outcome # "continue")
                     /\ success' = IF outcome = "fail" THEN FALSE ELSE success
                     /\ UNCHANGED pc
    /\ UNCHANGED <<cfgVars, fits, rng, tolVars, ksg_max, bwdVars, resVars,
                   obsTol, calls, fwd_result, obsBwd, obsRes, prevVars>>

\* return selected_terms, success
WideForwardReturn ==
    /\ pc = "forward"
    /\ stop_criteria = TRUE
    /\ fwd_result' = selected_terms
    /\ pc' = "forward_returned"
    /\ UNCHANGED <<cfgVars, fits, rng, tolVars, fwdVars, bwdVars, resVars,
                   obsTol, calls, fwd_rounds, last_residual, last_max, obsBwd,
                   obsRes, prevVars>>

NextWide == WideForwardRound \/ WideForwardReturn

SpecWide == InitWide /\ [][NextWide]_vars

\* ------------------------------------------------------------- constructor
\* values a caller can pass for an integer parameter
IntArgs == {PyVal("int", 0), PyVal("int", 2), PyVal("bool", 1),
            PyVal("float", 5), PyVal("str", 0)}

\* values a caller can pass for ylag and xlag
LagArgs == {PyVal("int", 0), PyVal("int", 2), PyVal("list", 0),
            PyVal("float", 5)}

\* values a caller can pass for q: 0.0, 0.5, 1.0, 1.5, the int 1, None
QArgs == {PyVal("float", 0), PyVal("float", 1), PyVal("float", 2),
          PyVal("float", 3), PyVal("int", 1), PyVal("none", 0)}

\* values a caller can pass for a flag
FlagArgs == {PyVal("bool", 0), PyVal("bool", 1), PyVal("int", 1)}

ModelTypes == {"NARMAX", "NAR", "NFIR", "other"}

\* isinstance(x, int): bool is a subclass of int
IsInstanceInt(x) == x.t \in {"int", "bool"}

\* "... %f" % x formats a number and raises TypeError for anything else
FormatsAsFloat(x) == x.t \in {"int", "bool", "float"}

\* raise exc("... Got %f" % x)
RaiseWithValue(exc, x) == IF FormatsAsFloat(x) THEN exc ELSE "TypeError"

\* _validate_params: the exception raised, or "ok"
ValidateParams(a) ==
    IF IsInstanceInt(a.ylag) /\ a.ylag.v < 1
    THEN RaiseWithValue("ValueError", a.ylag)
    ELSE IF IsInstanceInt(a.xlag) /\ a.xlag.v < 1
    THEN RaiseWithValue("ValueError", a.xlag)
    ELSE IF ~(IsInstanceInt(a.xlag) \/ a.xlag.t = "list")
    THEN RaiseWithValue("ValueError", a.xlag)
    ELSE IF ~(IsInstanceInt(a.ylag) \/ a.ylag.t = "list")
    THEN RaiseWithValue("ValueError", a.ylag)
    ELSE IF ~IsInstanceInt(a.k) \/ a.k.v < 1
    THEN RaiseWithValue("ValueError", a.k)
    ELSE IF ~IsInstanceInt(a.n_perm) \/ a.n_perm.v < 1
    THEN RaiseWithValue("ValueError", a.n_perm)
    ELSE IF a.q.t # "float" \/ a.q.v > QDen \/ a.q.v <= 0
    THEN RaiseWithValue("ValueError", a.q)
    ELSE IF a.skip_forward.t # "bool"
    THEN RaiseWithValue("TypeError", a.skip_forward)
    ELSE IF a.extended_least_squares.t # "bool"
    THEN RaiseWithValue("TypeError", a.extended_least_squares)
    ELSE IF a.model_type \notin {"NARMAX", "NAR", "NFIR"}
    THEN "ValueError"
    ELSE "ok"

\* a constructor call about to run
InitCtor ==
    /\ ctor_args \in [ylag : LagArgs, xlag : LagArgs, k : IntArgs,
                      n_perm : IntArgs, q : QArgs, skip_forward : FlagArgs,
                      extended_least_squares : FlagArgs,
                      model_type : ModelTypes]
    /\ ctor_result = "pending"
    /\ FitIdle
    /\ KnnIdle
    /\ PredictIdle
    /\ TrainIdle

\* ER.__init__: the attributes are stored and _validate_params runs
Construct ==
    /\ ctor_result = "pending"
    /\ ctor_result' = ValidateParams(ctor_args)
    /\ UNCHANGED <<fitVars, ctor_args, knnVars, prVars>>

NextCtor == Construct

SpecCtor == InitCtor /\ [][NextCtor]_vars

\* ------------------------------------------- k-nearest-neighbour estimators
\* sample counts, neighbour numbers and coordinates of the points examined
MaxSamples == 3
MaxK == 2
MaxCoord == 1

Estimators == {"mutual_information_knn", "conditional_mutual_information"}

\* the columns of the joint space of an estimator (y_perm is held in f1)
JointSpace(e) ==
    IF e = "mutual_information_knn" THEN {"y", "f1"} ELSE {"y", "f1", "f2"}

\* the marginal spaces an estimator counts neighbours in
Marginals(e) ==
    IF e = "mutual_information_knn"
    THEN [nx |-> {"y"}, ny |-> {"f1"}]
    ELSE [y_f2 |-> {"y", "f2"}, f1_f2 |-> {"f1", "f2"}, f2_f2 |-> {"f2"}]

MaxOf(S) == CHOOSE m \in S : \A x \in S : x <= m

\* cdist(a, a, "minkowski", p=inf)[i, j] over the columns cols
Cdist(a, cols, i, j) == MaxOf({Abs(a[c][i] - a[c][j]) : c \in cols})

\* np.argpartition(row, kth)[:kth]: the order of the entries before kth is
\* not specified; sel holds the (1-based) positions returned first
IsArgPartition(row, kth, sel) ==
    /\ \A a, b \in DOMAIN sel : a # b => sel[a] # sel[b]
    /\ \A a \in DOMAIN sel : row[sel[a]] <= row[kth + 1]
    /\ \A m \in (DOMAIN row) \ Range(sel) : row[m] >= row[kth + 1]

\* an estimator call about to run on n_samples points
InitKnn ==
    /\ knn_pc = "called"
    /\ \E n \in 2 .. MaxSamples, e \in Estimators :
          /\ knn_in \in [estimator : {e}, k : 1 .. MaxK,
                         y : [1 .. n -> 0 .. MaxCoord],
                         f1 : [1 .. n -> 0 .. MaxCoord],
                         f2 : [1 .. n -> 0 .. MaxCoord]]
          /\ e = "mutual_information_knn" => knn_in.f2 = [i \in 1 .. n |-> 0]
    /\ smallest_distance = <<>> /\ idx = <<>> /\ epsilon = <<>>
    /\ knn_counts = <<>>
    /\ FitIdle
    /\ CtorIdle
    /\ PredictIdle
    /\ TrainIdle

n_samples == Len(knn_in.y)

\* smallest_distance = np.sort(cdist(joint_space, joint_space, ...).T)
KnnSort ==
    /\ knn_pc = "called"
    /\ smallest_distance' =
          [i \in 1 .. n_samples |->
              SortAsc([j \in 1 .. n_samples |->
                          Cdist(knn_in, JointSpace(knn_in.estimator), j, i)])]
    /\ knn_pc' = "sorted"
    /\ UNCHANGED <<fitVars, ctorVars, prVars, knn_in, idx, epsilon, knn_counts>>

\* np.argpartition raises ValueError unless kth < len(row)
KthOutOfBounds(k, n) == k + 1 >= n

\* idx = np.argpartition(smallest_distance[-1, :], self.k + 1)[: self.k + 1]
KnnPartition ==
    /\ knn_pc = "sorted"
    /\ IF KthOutOfBounds(knn_in.k, n_samples)
       THEN knn_pc' = "raised" /\ idx' = idx
       ELSE /\ \E sel \in [1 .. knn_in.k + 1 -> 1 .. n_samples] :
                  /\ IsArgPartition(smallest_distance[n_samples],
                                    knn_in.k + 1, sel)
                  /\ idx' = sel
            /\ knn_pc' = "selected"
    /\ UNCHANGED <<fitVars, ctorVars, prVars, knn_in, smallest_distance, epsilon,
                   knn_counts>>

\* smallest_distance[:, idx][:, -1]
KnnEpsilon ==
    /\ knn_pc = "selected"
    /\ epsilon' = [i \in 1 .. n_samples |->
                      smallest_distance[i][idx[Len(idx)]]]
    /\ knn_pc' = "radius"
    /\ UNCHANGED <<fitVars, ctorVars, prVars, knn_in, smallest_distance, idx,
                   knn_counts>>

\* np.sum(cdist(m, m) < epsilon, axis=1) - 1 for every marginal space m
KnnCount ==
    /\ knn_pc = "radius"
    /\ knn_counts' =
          [m \in DOMAIN Marginals(knn_in.estimator) |->
              [i \in 1 .. n_samples |->
                  Cardinality({j \in 1 .. n_samples :
                      Cdist(knn_in, Marginals(knn_in.estimator)[m], i, j)
                          < epsilon[i]}) - 1]]
    /\ knn_pc' = "counted"
    /\ UNCHANGED <<fitVars, ctorVars, prVars, knn_in, smallest_distance, idx,
                   epsilon>>

NextKnn == KnnSort \/ KnnPartition \/ KnnEpsilon \/ KnnCount

SpecKnn == InitKnn /\ [][NextKnn]_vars

\* --------------------------------------------------------- NARXNN.predict
\* lengths of y, values of max_lag and lengths of the output array examined
MaxLenY == 5
MaxLag == 2
MaxRows == 5

BasisFunctions == {"Polynomial", "Fourier"}

\* steps_ahead: None or an integer
StepsAhead == {PyVal("none", 0), PyVal("int", 0), PyVal("int", 1),
               PyVal("int", 2), PyVal("int", 3)}

\* a predict call about to run.  X is an array for NARMAX and NFIR and may
\* be None for NAR.  n_rows is the length of the output array: X.shape[0],
\* or forecast_horizon + max_lag when X is None.
InitPredict ==
    /\ pr_pc = "called"
    /\ pr_in \in [model_type : {"NARMAX", "NAR", "NFIR"},
                  basis_function : BasisFunctions,
                  steps_ahead : StepsAhead,
                  X : {"array", "None"},
                  len_y : 0 .. MaxLenY,
                  max_lag : 1 .. MaxLag,
                  n_rows : 1 .. MaxRows]
    /\ pr_in.len_y <= pr_in.n_rows
    /\ pr_in.X = "None" => pr_in.model_type = "NAR"
    /\ pr_in.X = "None" => pr_in.n_rows > pr_in.max_lag
    /\ pr_method = "none" /\ pr_written = 0 /\ pr_error = "none"
    /\ pr_i = 0 /\ pr_steps = 0 /\ pr_yhat = <<>>
    /\ FitIdle
    /\ CtorIdle
    /\ KnnIdle
    /\ TrainIdle

XIsNone == pr_in.X = "None"

\* _check_positive_int(steps_ahead, "steps_ahead") raises ValueError unless
\* the value is an integer greater than zero
CheckPositiveInt(x) == x.t = "int" /\ x.v >= 1

\* NARXNN.predict: the method the call is dispatched to.  Only the
\* Polynomial branch validates steps_ahead.
Predict ==
    /\ pr_pc = "called"
    /\ IF /\ pr_in.basis_function = "Polynomial"
          /\ pr_in.steps_ahead.t # "none" /\ pr_in.steps_ahead.v # 1
          /\ ~CheckPositiveInt(pr_in.steps_ahead)
       THEN /\ pr_pc' = "raised" /\ pr_error' = "ValueError"
            /\ pr_method' = pr_method
       ELSE /\ pr_method' =
                  IF pr_in.basis_function = "Polynomial"
                  THEN IF pr_in.steps_ahead.t = "none"
                       THEN "_model_prediction"
                       ELSE IF pr_in.steps_ahead.v = 1
                            THEN "_one_step_ahead_prediction"
                            ELSE "_n_step_ahead_prediction"
                  ELSE IF pr_in.steps_ahead.t = "none"
                       THEN "_basis_function_predict"
                       ELSE IF pr_in.steps_ahead.v = 1
                            THEN "_one_step_ahead_prediction"
                            ELSE "basis_function_n_step_prediction"
            /\ pr_pc' = "entered" /\ pr_error' = pr_error
    /\ UNCHANGED <<fitVars, ctorVars, knnVars, pr_in, pr_written, pr_i,
                   pr_steps, pr_yhat>>

\* the methods that start with "if len(y) < self.max_lag: raise Exception":
\* _narmax_predict (reached from _model_prediction for NARMAX and NAR),
\* _n_step_ahead_prediction and basis_function_n_step_prediction;
\* _nfir_predict and _basis_function_predict have no such test
HasLengthCheck(method, model_type) ==
    \/ method = "_model_prediction" /\ model_type \in {"NARMAX", "NAR"}
    \/ method = "_n_step_ahead_prediction"
    \/ method = "basis_function_n_step_prediction"

\* the first statements of a recursive prediction method
MethodEntry ==
    /\ pr_pc = "entered"
    /\ pr_method # "_one_step_ahead_prediction"
    /\ IF /\ HasLengthCheck(pr_method, pr_in.model_type)
          /\ pr_in.len_y < pr_in.max_lag
       THEN pr_pc' = "raised" /\ pr_error' = "Exception"
       ELSE pr_pc' = "initial_conditions" /\ pr_error' = pr_error
    /\ UNCHANGED <<fitVars, ctorVars, knnVars, pr_in, pr_method, pr_written,
                   pr_i, pr_steps, pr_yhat>>

Min2(a, b) == IF a <= b THEN a ELSE b

\* a[:m] = b[:m, 0] is accepted when both slices have the same length or
\* the right one has length 1 (it is broadcast)
SliceAssignOk(len_a, len_b, m) ==
    \/ Min2(m, len_b) = Min2(m, len_a)
    \/ Min2(m, len_b) = 1

\* an entry of the output array: NaN, a copy of an entry of y, or a value
\* predicted in the chunk that starts at index chunk from the initial
\* conditions y[from : chunk]; n counts the predicted values written to it
NanEntry == [kind |-> "nan", n |-> 0, chunk |-> -1, from |-> -1]
CopiedEntry == [kind |-> "y", n |-> 0, chunk |-> -1, from |-> -1]
PredictedEntry(old, i, k) ==
    [kind |-> "pred", n |-> old.n + 1, chunk |-> i, from |-> k]

\* yhat = np.zeros(n); yhat.fill(np.nan); yhat[:m] = y[:m, 0]
InitialOutput(n, m) ==
    [j \in 0 .. (n - 1) |-> IF j < m THEN CopiedEntry ELSE NanEntry]

NStepMethods ==
    {"_n_step_ahead_prediction", "basis_function_n_step_prediction"}

\* yhat = np.zeros(...); yhat[: self.max_lag] = y[: self.max_lag, 0];
\* i = self.max_lag.  _n_step_ahead_prediction reads X.shape[0] whether or
\* not X is None.
InitialConditions ==
    /\ pr_pc = "initial_conditions"
    /\ IF pr_method = "_n_step_ahead_prediction" /\ XIsNone
       THEN /\ pr_pc' = "raised" /\ pr_error' = "AttributeError"
            /\ UNCHANGED <<pr_i, pr_steps, pr_yhat>>
       ELSE IF ~SliceAssignOk(pr_in.n_rows, pr_in.len_y, pr_in.max_lag)
       THEN /\ pr_pc' = "raised" /\ pr_error' = "ValueError"
            /\ UNCHANGED <<pr_i, pr_steps, pr_yhat>>
       ELSE /\ pr_pc' = "loop" /\ pr_error' = pr_error
            /\ pr_yhat' = InitialOutput(pr_in.n_rows, pr_in.max_lag)
            /\ pr_i' = pr_in.max_lag
            /\ pr_steps' = pr_in.steps_ahead.v
    /\ UNCHANGED <<fitVars, ctorVars, knnVars, pr_in, pr_method, pr_written>>

\* the indices the loop of a free-run method writes a predicted value to
PredictedIndices == pr_in.max_lag .. (pr_in.n_rows - 1)

\* the prediction loop of a free-run method, and its return
PredictionLoop ==
    /\ pr_pc = "loop"
    /\ pr_method \notin NStepMethods
    /\ pr_written' = Cardinality(PredictedIndices)
    /\ pr_yhat' = [j \in DOMAIN pr_yhat |->
                      IF j \in PredictedIndices
                      THEN PredictedEntry(pr_yhat[j], pr_in.max_lag, 0)
                      ELSE pr_yhat[j]]
    /\ pr_pc' = "returned"
    /\ UNCHANGED <<fitVars, ctorVars, knnVars, pr_in, pr_method, pr_error,
                   pr_i, pr_steps>>

\* if i + steps_ahead > len(y): steps_ahead = len(y) - i
ChunkLength(i, steps, len_y) ==
    IF i + steps > len_y THEN len_y - i ELSE steps

\* the assignment of a chunk with steps_ahead = 0 is accepted: the target
\* yhat[i:i] is empty and the value is result[-0:], the whole result of
\* max_lag entries, or the empty result[-fh:-fh] for NAR
EmptyChunkAccepted == pr_in.model_type = "NAR" \/ pr_in.max_lag = 1

\* one pass of the while loop of an n-steps-ahead method: the chunk
\* yhat[i : i + steps_ahead] is predicted from X[k : i + steps_ahead] and
\* y[k : i + steps_ahead] with k = i - max_lag, then i += steps_ahead
ChunkStep ==
    /\ pr_pc = "loop"
    /\ pr_method \in NStepMethods
    /\ pr_i < pr_in.len_y
    /\ LET k == pr_i - pr_in.max_lag
           steps == ChunkLength(pr_i, pr_steps, pr_in.len_y)
       IN IF steps = 0 /\ ~EmptyChunkAccepted
          THEN /\ pr_pc' = "raised" /\ pr_error' = "ValueError"
               /\ UNCHANGED <<pr_i, pr_steps, pr_yhat, pr_written>>
          ELSE /\ pr_steps' = steps
               /\ pr_yhat' = [j \in DOMAIN pr_yhat |->
                                 IF j >= pr_i /\ j < pr_i + steps
                                 THEN PredictedEntry(pr_yhat[j], pr_i, k)
                                 ELSE pr_yhat[j]]
               /\ pr_written' = pr_written + steps
               /\ pr_i' = pr_i + steps
               /\ UNCHANGED <<pr_pc, pr_error>>
    /\ UNCHANGED <<fitVars, ctorVars, knnVars, pr_in, pr_method>>

\* the while test fails: return yhat.reshape(-1, 1)
ChunkLoopExit ==
    /\ pr_pc = "loop"
    /\ pr_method \in NStepMethods
    /\ pr_i >= pr_in.len_y
    /\ pr_pc' = "returned"
    /\ UNCHANGED <<fitVars, ctorVars, knnVars, pr_in, pr_method, pr_written,
                   pr_error, pr_i, pr_steps, pr_yhat>>

\* whether build_output_matrix / build_input_output_matrix accept y: they
\* are not part of the files examined, so a y shorter than max_lag may be
\* accepted or refused; build_input_matrix (NFIR) does not receive y
BuildersAccept ==
    IF pr_in.model_type = "NFIR" \/ pr_in.len_y >= pr_in.max_lag
    THEN {TRUE}
    ELSE BOOLEAN

\* _one_step_ahead_prediction: no test of len(y); X.shape[0] is read
OneStepAhead ==
    /\ pr_pc = "entered"
    /\ pr_method = "_one_step_ahead_prediction"
    /\ \E accepted \in BuildersAccept :
          IF ~accepted
          THEN /\ pr_pc' = "raised" /\ pr_error' = "BuilderError"
               /\ pr_written' = pr_written
          ELSE IF XIsNone
          THEN /\ pr_pc' = "raised" /\ pr_error' = "AttributeError"
               /\ pr_written' = pr_written
          ELSE /\ pr_pc' = "returned" /\ pr_error' = pr_error
               /\ pr_written' = Max2(pr_in.n_rows - pr_in.max_lag, 0)
    /\ UNCHANGED <<fitVars, ctorVars, knnVars, pr_in, pr_method, pr_i,
                   pr_steps, pr_yhat>>

NextPredict ==
    Predict \/ MethodEntry \/ InitialConditions \/ PredictionLoop
        \/ ChunkStep \/ ChunkLoopExit \/ OneStepAhead

\* predict is a sequential computation: it keeps executing until it returns
\* or raises
SpecPredict == InitPredict /\ [][NextPredict]_vars /\ WF_vars(NextPredict)

\* ------------------------------------------------------------- properties
Returned == pc = "done"

NonZero(th) == Cardinality({i \in DOMAIN th : th[i] # 0})

\* position of column c in the index sequence fm
PositionOf(fm, c) == CHOOSE i \in DOMAIN fm : fm[i] = c

\* C1 (as stated): after every fit call that returns, the resulting model
\* (final_model / pivv) includes the constant term, design-matrix index 0.
C1_ConstantAlwaysInModel ==
    Returned => 0 \in Range(pivv) /\ RegressorCode(0) \in Range(self_final_model)

\* C1 (amended): after every fit call that returns, the resulting model
\* includes the constant term unless the post-hoc pruning removed it, that
\* is, unless the pruning fired and the constant term was the first term of
\* the estimated index set.
C1_ConstantUnlessPruned ==
    Returned =>
        /\ 0 \in Range(pivv) <=> ~(pruned /\ est_cols[1] = 0)
        /\ RegressorCode(0) \in Range(self_final_model) <=> 0 \in Range(pivv)

\* C1 witness: fit returned without pruning after the forward and backward
\* phases left the constant term out.
C1_Witness ==
    Returned /\ ~pruned /\ ~skip_forward /\ success /\ 0 \notin Range(composed)

\* C2: the column index set handed to the estimator always contains index
\* 0; when the composed backward result lacks 0 it is inserted in first
\* position and the other indices keep their order, otherwise the set is
\* passed unchanged.
C2_EstimatorSetHasConstant ==
    Returned =>
        /\ 0 \in Range(est_cols)
        /\ 0 \notin Range(composed) => est_cols = <<0>> \o composed
        /\ 0 \in Range(composed) => est_cols = composed

\* C2 witness: the estimator received a set of three indices whose first is
\* the inserted constant term.
C2_Witness ==
    Returned /\ 0 \notin Range(composed) /\ Len(composed) = 2
        /\ composed[1] > composed[2]

\* C3: whenever fit returns, n_terms >= 1 and final_model, theta and pivv
\* each hold at least one term.
C3_ModelNeverEmpty ==
    Returned =>
        /\ n_terms >= 1
        /\ Len(self_final_model) >= 1
        /\ Len(theta) >= 1
        /\ Len(pivv) >= 1

\* C3 witness: fit returned after the post-hoc pruning fired.
C3_Witness == Returned /\ pruned /\ n_terms = 1

\* C4 (as stated): the post-hoc pruning removes at most one term and that
\* term is the constant term; it fires exactly when the magnitude of the
\* constant term's coefficient is below h and more than one coefficient is
\* non-zero.
C4_PruningDropsConstant ==
    Returned =>
        LET k == PositionOf(est_cols, 0)
        IN /\ pruned <=> (Abs(theta_full[k]) < H /\ NonZero(theta_full) > 1)
           /\ pruned => /\ pivv = Delete(est_cols, k)
                        /\ theta = Delete(theta_full, k)
           /\ ~pruned => pivv = est_cols /\ theta = theta_full

\* C5: the forward selector runs iff skip_forward is false, the backward
\* eliminator runs exactly once and after it, and its candidates are the
\* forward result when forward ran with success, and all columns otherwise.
C5_PhaseOrder ==
    Returned =>
        /\ calls = IF skip_forward THEN <<"backward">>
                   ELSE <<"forward", "backward">>
        /\ bwd_input = IF ~skip_forward /\ success THEN fwd_result
                       ELSE RangeList(NReg)

\* C5 witness: the forward selector ran and did not converge, and fit
\* returned a model built from all columns.
C5_Witness ==
    Returned /\ ~skip_forward /\ ~success /\ fwd_result # RangeList(NReg)

\* C6 (as stated): within one fit call the tolerance is estimated exactly
\* once, from n_perm permutation draws, and that value is the one the
\* selection phases used and the one reported as estimated_tolerance.
C6_ToleranceEstimatedOnce ==
    Returned =>
        /\ tol_estimations = 1
        /\ draws = n_perm
        /\ tol = estimated_tolerance

\* C7 (as stated): a fit call repeated on the same data gives the final_model
\* and theta of the call before it, also on the same model instance.
C7_RefitIdentical ==
    Returned /\ fits >= 2 /\ prev_theta # <<>> =>
        /\ self_final_model = prev_final_model
        /\ theta = prev_theta

\* C8 (as stated): a round of the backward eliminator whose minimum removal
\* statistic exceeds tol removes no index.
C8_SignificantNotRemoved ==
    [][pc = "backward" /\ pc' = "backward" /\ bwd_rounds' = bwd_rounds + 1
       /\ Gt(min_value', tol') => piv' = piv]_vars

\* C9: the backward eliminator called with a piv of size 1 returns it
\* unchanged: no round is executed, no conditional mutual information is
\* evaluated and no index is removed.
C9_SingletonUnchanged ==
    pc \in {"estimate", "done"} /\ Len(bwd_piv_in) = 1 =>
        /\ piv = bwd_piv_in
        /\ bwd_rounds = 0
        /\ bwd_evals = 0
        /\ composed = bwd_input

\* C9 witness: the backward eliminator returned from a call with one
\* candidate.
C9_Witness == pc = "estimate" /\ Len(bwd_piv_in) = 1 /\ ~IsNaN(tol)

C11_NonConvergenceIsReturned ==
    /\ pc = "forward" /\ fwd_rounds > 0 =>
          /\ (stop_criteria /\ ~success)
                <=> /\ ~(Leq(last_residual, tol) \/ Leq(last_max, tol))
                    /\ 2 * Len(selected_terms) > 16
                    /\ 2 * Len(selected_terms) > NReg
          /\ stop_criteria /\ 2 * Len(selected_terms) <= 16 => success
    /\ pc = "raised" /\ calls = <<"forward">> => selected_terms = <<>>

\* C11 witness: the forward selector ended its loop with success = False.
C11_Witness ==
    pc = "forward" /\ stop_criteria /\ ~success /\ Len(selected_terms) = 9

\* C13: fit called with y = None raises ValueError before any other step: no
\* permutation is drawn and no attribute of the model is changed.
C13_NoYChangesNothing ==
    [][pc' = "no_y" =>
          /\ rng' = rng
          /\ tol' = tol
          /\ estimated_tolerance' = estimated_tolerance
          /\ self_final_model' = self_final_model
          /\ theta' = theta
          /\ pivv' = pivv
          /\ n_terms' = n_terms
          /\ err' = err]_vars

\* C13 witness: fit raised for y = None on a model fitted before, whose
\* tolerance is not the initial value of the fit call.
C13_Witness == pc = "no_y" /\ theta # <<>> /\ tol # 0 /\ rng > 0

\* some statistic of the fit call is not finite
NonFiniteStatistic == IsNaN(tol) \/ \E c \in Cols : IsNaN(gain[c])

\* C14 (as stated): non-finite statistics never make fit raise: the
\* tolerance estimation, the forward argmax, the backward argmin and the
\* loop tests complete and fit returns a model.
C14_DegeneraciesNeverRaise ==
    NonFiniteStatistic /\ calls = <<"forward">> => pc # "raised"

\* the configuration errors the constructor is to report with ValueError
ConfigValueError(a) ==
    \/ ~(a.k.t = "int" /\ a.k.v >= 1) /\ a.k # PyVal("bool", 1)
    \/ ~(a.n_perm.t = "int" /\ a.n_perm.v >= 1) /\ a.n_perm # PyVal("bool", 1)
    \/ ~(a.q.t = "float" /\ a.q.v > 0 /\ a.q.v <= QDen)
    \/ a.ylag.t = "int" /\ a.ylag.v < 1
    \/ a.xlag.t = "int" /\ a.xlag.v < 1
    \/ a.ylag.t \notin {"int", "list"}
    \/ a.xlag.t \notin {"int", "list"}
    \/ a.model_type \notin {"NARMAX", "NAR", "NFIR"}

\* C12 (as stated): constructing ER fails for every invalid configuration,
\* with ValueError for an invalid k, n_perm, q, ylag, xlag or model_type and
\* with TypeError for a skip_forward that is not a boolean, and every valid
\* configuration is accepted.
C12_ConstructorErrors ==
    ctor_result # "pending" /\ ctor_args.extended_least_squares.t = "bool" =>
        LET a == ctor_args
            flag_ok == a.skip_forward.t = "bool"
        IN /\ ~ConfigValueError(a) /\ flag_ok => ctor_result = "ok"
           /\ ConfigValueError(a) \/ ~flag_ok => ctor_result # "ok"
           /\ ConfigValueError(a) /\ flag_ok => ctor_result = "ValueError"
           /\ ~ConfigValueError(a) /\ ~flag_ok => ctor_result = "TypeError"

\* C16 (as stated): every quantile q between 0 and 1, both endpoints
\* included, is accepted by the constructor.
C16_QuantileEndpointsAccepted ==
    LET a == ctor_args
    IN /\ ctor_result # "pending"
       /\ [a EXCEPT !.q = ValidArgs.q] = ValidArgs
       /\ a.q.t = "float" /\ a.q.v >= 0 /\ a.q.v <= QDen
       => ctor_result = "ok"

\* C15 (as stated): the estimators select their k+1 distances and raise no
\* out-of-bounds error for every sample count with k+1 <= n_samples.
C15_DefinedFromKPlusOne ==
    knn_pc # "off" /\ knn_in.k + 1 <= n_samples => knn_pc # "raised"

\* the distance from point i to its k-th nearest other point in the joint
\* space
KthNeighbourDistance(i) ==
    LET others == {j \in 1 .. n_samples : j # i}
        f == CHOOSE g \in [1 .. n_samples - 1 -> others] :
                 \A a, b \in 1 .. n_samples - 1 : a # b => g[a] # g[b]
    IN SortAsc([a \in 1 .. n_samples - 1 |->
                   Cdist(knn_in, JointSpace(knn_in.estimator), i, f[a])])[knn_in.k]

\* C19 (as stated): the radius of every point is the distance to its k-th
\* nearest neighbour in the joint space, whatever order the partial
\* selection returns and whatever ties the distances contain.
C19_EpsilonIsKthNeighbour ==
    knn_pc \in {"radius", "counted"} =>
        \A i \in 1 .. n_samples : epsilon[i] = KthNeighbourDistance(i)

\* C20 (as stated): every marginal count is, for every point i, the number
\* of other points strictly nearer than epsilon[i] in that marginal space,
\* and so is never negative.
C20_CountsOtherPoints ==
    knn_pc = "counted" =>
        \A m \in DOMAIN knn_counts : \A i \in 1 .. n_samples :
            /\ knn_counts[m][i] >= 0
            /\ knn_counts[m][i] =
                  Cardinality({j \in 1 .. n_samples :
                      /\ j # i
                      /\ Cdist(knn_in, Marginals(knn_in.estimator)[m], i, j)
                            < epsilon[i]})

\* C17 (as stated): for every model_type, basis function and prediction
\* mode of NARXNN.predict, a y with len(y) < max_lag raises an error before
\* any predicted value is produced.
C17_ShortInitialConditionsRejected ==
    pr_pc # "off" /\ pr_in.len_y < pr_in.max_lag =>
        pr_pc # "returned" /\ pr_written = 0

\* column c is a candidate of a round whose selected columns are sel, and no
\* candidate has a larger statistic, nor an equal one at a lower index
BestCandidate(c, sel) ==
    /\ c \in Cols \ Range(sel)
    /\ \A j \in Cols \ Range(sel) :
          ~IsNaN(gain[j]) =>
              /\ Leq(gain[j], gain[c])
              /\ j < c => gain[j] < gain[c]

\* C21 (as stated): in every forward round that adds a column, the column
\* added is the not-yet-selected column with the maximal conditional mutual
\* information, the lowest index among equal maxima.
C21_AddsBestCandidate ==
    [][pc = "forward" /\ fwd_rounds' = fwd_rounds + 1
          /\ selected_terms' # selected_terms
       => /\ selected_terms' = Append(selected_terms, ix[1])
          /\ BestCandidate(ix[1], selected_terms)]_vars

NoRepeat(s) == \A a, b \in DOMAIN s : a # b => s[a] # s[b]

\* C22 (as stated): at every round of forward selection and in its returned
\* value, selected_terms holds valid column indices, none repeated, for all
\* values of the statistics and of tol.
C22_SelectedTermsDistinct ==
    /\ pc = "forward" =>
          Range(selected_terms) \subseteq Cols /\ NoRepeat(selected_terms)
    /\ Range(fwd_result) \subseteq Cols /\ NoRepeat(fwd_result)

\* the removal statistic of position i of the current piv
RemovalStatistic(i) == gain[bwd_input[piv[i] + 1]]

\* position i holds the minimal removal statistic of the current piv, the
\* lowest position among equal minima (a NaN statistic is not a minimum
\* unless every statistic is NaN)
MinimalPosition(i) ==
    /\ IsNaN(RemovalStatistic(i)) =>
          \A j \in DOMAIN piv : IsNaN(RemovalStatistic(j))
    /\ \A j \in DOMAIN piv :
          ~IsNaN(RemovalStatistic(j)) =>
              /\ Leq(RemovalStatistic(i), RemovalStatistic(j))
              /\ j < i => RemovalStatistic(i) < RemovalStatistic(j)

\* C23 (as stated): each round of backward elimination removes exactly one
\* index from piv, the one whose removal statistic is minimal (lowest
\* position at ties), and keeps the other indices in their order.
C23_RemovesMinimal ==
    [][pc = "backward" /\ bwd_rounds' = bwd_rounds + 1
       => \E i \in DOMAIN piv :
             /\ MinimalPosition(i)
             /\ piv' = [j \in 1 .. (Len(piv) - 1) |->
                           IF j < i THEN piv[j] ELSE piv[j + 1]]]_vars

\* C24: for a non-empty input piv the working set of backward elimination
\* is always a non-empty subset of the input, so between 1 and len(piv)
\* members are returned; every index fit composes from them, other than a
\* prepended 0, is a candidate column of the backward phase.
C24_BackwardKeepsSubset ==
    /\ pc = "backward" /\ bwd_piv_in # <<>> =>
          /\ piv # <<>>
          /\ Range(piv) \subseteq Range(bwd_piv_in)
          /\ Len(piv) <= Len(bwd_piv_in)
          /\ \A a, b \in DOMAIN piv : a # b => piv[a] # piv[b]
    /\ pc \in {"estimate", "done"} =>
          /\ Len(composed) >= 1 /\ Len(composed) <= Len(bwd_piv_in)
          /\ Range(composed) \subseteq Range(bwd_input)
          /\ Range(est_cols) \subseteq Range(bwd_input) \cup {0}
          /\ Range(final_model) \subseteq Range(bwd_input) \cup {0}
    /\ pc = "done" => Range(pivv) \subseteq Range(bwd_input) \cup {0}

C24_Witness ==
    /\ pc = "done" /\ fwd_result = <<2, 1>> /\ composed = <<2>>
    /\ bwd_rounds = 1 /\ est_cols = <<0, 2>>

\* C25: whenever fit returns, n_terms, theta, final_model, pivv and err have
\* the same length and row j of final_model is the regressor code of column
\* pivv[j], with or without the prepended constant and with or without the
\* pruning.
C25_FittedFieldsAgree ==
    pc = "done" =>
        /\ n_terms = Len(theta)
        /\ n_terms = Len(self_final_model)
        /\ n_terms = Len(pivv)
        /\ n_terms = Len(err)
        /\ \A j \in DOMAIN pivv : self_final_model[j] = RegressorCode(pivv[j])

C25_Witness ==
    /\ pc = "done" /\ pruned /\ 0 \notin Range(composed)
    /\ Len(composed) = 2 /\ n_terms = 2

\* the selection phase of a fit call is executing
SelectionRunning == pc \in {"fwd_permute", "forward", "backward"}

\* floor(max(8, n_regressors / 2)) + 2
ForwardRoundBound == Max2(8, NReg \div 2) + 2

C27_SmallMatrixConverges ==
    NRegWide < 10 /\ ~IsNaN(tol) =>
        /\ pc \in {"forward", "forward_returned"} => success
        /\ pc = "forward" /\ Range(selected_terms) = WideCols
              /\ fwd_rounds > Len(selected_terms)
              => stop_criteria /\ last_max = NegInf

\* C27 witness: every column of the 9 was selected, more than 8 terms, and
\* the selector returned with success.
C27_Witness ==
    /\ pc = "forward_returned" /\ success /\ ~IsNaN(tol)
    /\ Len(fwd_result) = NRegWide /\ 2 * Len(fwd_result) > 16
    /\ last_max = NegInf

\* a call of _n_step_ahead_prediction with at least max_lag initial values
\* (predict passes it a steps_ahead that is a positive integer)
NStepCall ==
    /\ pr_method = "_n_step_ahead_prediction"
    /\ pr_in.len_y >= pr_in.max_lag

\* the first index of the chunk of steps entries that holds index j
ChunkStartOf(j, steps, m) == m + steps * ((j - m) \div steps)

\* the output array holds y[0:max_lag], then one predicted value per index
\* up to len(y), written once, in chunks of steps_ahead entries each
\* started from y[i - max_lag : i]
ChunksFilled ==
    \A j \in DOMAIN pr_yhat :
        LET e == pr_yhat[j]
            first == ChunkStartOf(j, pr_in.steps_ahead.v, pr_in.max_lag)
        IN /\ j < pr_in.max_lag => e.kind = "y"
           /\ j >= pr_in.max_lag /\ j < pr_in.len_y =>
                 /\ e.kind = "pred" /\ e.n = 1
                 /\ e.chunk = first /\ e.from = first - pr_in.max_lag
           /\ j >= pr_in.len_y => e.kind = "nan"

\* C28 (as stated): _n_step_ahead_prediction with steps_ahead >= 1 and
\* len(y) >= max_lag terminates, copies y[0:max_lag], and fills
\* [max_lag, len(y)) by consecutive chunks of steps_ahead samples, every
\* index written once, every chunk restarted from the true outputs.
C28_NStepChunks ==
    /\ [](NStepCall =>
             /\ pr_pc # "raised"
             /\ pr_pc = "returned" =>
                   DOMAIN pr_yhat = 0 .. (pr_in.n_rows - 1) /\ ChunksFilled)
    /\ NStepCall ~> pr_pc = "returned"

\* steps_ahead is neither None, nor 1, nor a positive integer
InvalidStepsAhead ==
    /\ pr_in.steps_ahead.t # "none"
    /\ ~(pr_in.steps_ahead.t = "int" /\ pr_in.steps_ahead.v >= 1)

\* C29 (as stated): predict rejects every steps_ahead that is neither None,
\* nor 1, nor a positive integer before any prediction is computed, for
\* every basis function, so the n-steps-ahead loop is never entered with
\* steps_ahead <= 0.
C29_StepsAheadValidated ==
    pr_pc # "off" /\ InvalidStepsAhead =>
        /\ pr_pc \in {"called", "raised"}
        /\ pr_method = "none"
        /\ pr_written = 0

\* ------------------------------------------------------------ NARXNN.fit
MaxEpochs == 2
MaxBatches == 2
MaxTrainFits == 2

\* a NARXNN instance after __init__: _validate_params accepted epochs (an
\* integer >= 1) and verbose (a bool); the constructor assigns neither
\* train_loss nor val_loss; batches is the number of batches the DataLoader
\* of the training data yields
InitTrain ==
    /\ nn_pc = "idle"
    /\ nn_self \in [verbose : BOOLEAN, epochs : 1 .. MaxEpochs]
    /\ nn_args = <<>> /\ nn_fits = 0 /\ nn_epoch = 0 /\ nn_batch = 0
    /\ nn_opt_steps = 0
    /\ nn_assigned = FALSE /\ train_loss = <<>> /\ val_loss = <<>>
    /\ FitIdle
    /\ CtorIdle
    /\ KnnIdle
    /\ PredictIdle

\* variant: the lists of the previous call are kept
NewLossList_Keep(old) == old

\* self.val_loss = []; self.train_loss = []
NewLossList(old) == <<>>

\* loss_batch(X, y, opt): the number of optimizer steps taken on the network
\* after the call; opt.step() runs only when opt is not None
LossBatch(steps, opt) == IF opt # "None" THEN steps + 1 ELSE steps

\* [self.loss_batch(X, y) for X, y in dl]: n calls with opt=None
RECURSIVE LossOfAll(_, _)
LossOfAll(steps, n) ==
    IF n = 0 THEN steps ELSE LossOfAll(LossBatch(steps, "None"), n - 1)

\* the weighted mean loss appended for an epoch; its value is determined by
\* the parameters of the network, that is by the optimizer steps taken
EpochLoss(epoch, steps) == [epoch |-> epoch, params |-> steps]

\* fit, up to the for loop: data_transform raises when y is None, verbose
\* requires X_test and y_test, then the optimizer is created and both lists
\* are assigned
TrainFitStart ==
    /\ nn_pc \in {"idle", "returned", "raised"}
    /\ nn_fits < MaxTrainFits
    /\ nn_fits' = nn_fits + 1
    /\ \E a \in [y : {"array", "None"}, test : {"arrays", "None"},
                 batches : 1 .. MaxBatches, valid_batches : 1 .. MaxBatches] :
        /\ nn_args' = a
        /\ IF a.y = "None" \/ (nn_self.verbose /\ a.test = "None")
           THEN /\ nn_pc' = "raised"
                /\ UNCHANGED <<nn_assigned, train_loss, val_loss>>
           ELSE /\ nn_pc' = "epoch"
                /\ nn_assigned' = TRUE
                /\ val_loss' = NewLossList(val_loss)
                /\ train_loss' = NewLossList(train_loss)
    /\ nn_epoch' = 0
    /\ nn_batch' = 0
    /\ UNCHANGED <<erVars, ctorVars, knnVars, prVars, nn_self, nn_opt_steps>>

\* for epoch in range(self.epochs): self.net.train()
TrainEpochStart ==
    /\ nn_pc = "epoch"
    /\ nn_epoch < nn_self.epochs
    /\ nn_pc' = "train"
    /\ nn_batch' = 0
    /\ UNCHANGED <<erVars, ctorVars, knnVars, prVars, nn_self, nn_args,
                   nn_fits, nn_epoch, nn_opt_steps, nn_assigned, train_loss,
                   val_loss>>

\* for X, y in train_dl: self.loss_batch(X, y, opt=opt)
TrainBatch ==
    /\ nn_pc = "train"
    /\ nn_batch < nn_args.batches
    /\ nn_opt_steps' = LossBatch(nn_opt_steps, "opt")
    /\ nn_batch' = nn_batch + 1
    /\ UNCHANGED <<erVars, ctorVars, knnVars, prVars, nn_pc, nn_self,
                   nn_args, nn_fits, nn_epoch, nn_assigned, train_loss,
                   val_loss>>

\* the batches are exhausted: if self.verbose == True the losses are
\* evaluated, otherwise the next epoch starts
TrainBatchesDone ==
    /\ nn_pc = "train"
    /\ nn_batch = nn_args.batches
    /\ IF nn_self.verbose = TRUE
       THEN nn_pc' = "eval_train" /\ UNCHANGED nn_epoch
       ELSE nn_pc' = "epoch" /\ nn_epoch' = nn_epoch + 1
    /\ UNCHANGED <<erVars, ctorVars, knnVars, prVars, nn_self, nn_args,
                   nn_fits, nn_batch, nn_opt_steps, nn_assigned, train_loss,
                   val_loss>>

\* the training loss of the epoch: loss_batch over train_dl with opt=None,
\* then self.train_loss.append(...)
EvalTrain ==
    /\ nn_pc = "eval_train"
    /\ nn_opt_steps' = LossOfAll(nn_opt_steps, nn_args.batches)
    /\ train_loss' = Append(train_loss, EpochLoss(nn_epoch, nn_opt_steps'))
    /\ nn_pc' = "eval_valid"
    /\ UNCHANGED <<erVars, ctorVars, knnVars, prVars, nn_self, nn_args,
                   nn_fits, nn_epoch, nn_batch, nn_assigned, val_loss>>

\* self.net.eval(); the validation loss under torch.no_grad(), appended to
\* self.val_loss; logging.info reads train_loss[epoch] and val_loss[epoch]
EvalValid ==
    /\ nn_pc = "eval_valid"
    /\ nn_opt_steps' = LossOfAll(nn_opt_steps, nn_args.valid_batches)
    /\ val_loss' = Append(val_loss, EpochLoss(nn_epoch, nn_opt_steps'))
    /\ IF nn_epoch + 1 <= Len(train_loss) /\ nn_epoch + 1 <= Len(val_loss')
       THEN nn_pc' = "epoch" /\ nn_epoch' = nn_epoch + 1
       ELSE nn_pc' = "raised" /\ UNCHANGED nn_epoch
    /\ UNCHANGED <<erVars, ctorVars, knnVars, prVars, nn_self, nn_args,
                   nn_fits, nn_batch, nn_assigned, train_loss>>

\* the for loop is exhausted: return self
TrainFitReturn ==
    /\ nn_pc = "epoch"
    /\ nn_epoch = nn_self.epochs
    /\ nn_pc' = "returned"
    /\ UNCHANGED <<erVars, ctorVars, knnVars, prVars, nn_self, nn_args,
                   nn_fits, nn_epoch, nn_batch, nn_opt_steps, nn_assigned,
                   train_loss, val_loss>>

NextTrain ==
    \/ TrainFitStart
    \/ TrainEpochStart
    \/ TrainBatch
    \/ TrainBatchesDone
    \/ EvalTrain
    \/ EvalValid
    \/ TrainFitReturn

SpecTrain == InitTrain /\ [][NextTrain]_vars

\* the lists hold one entry per epoch of the call, in order
OnePerEpoch(list, n) ==
    /\ Len(list) = n
    /\ \A i \in 1 .. Len(list) : list[i].epoch = i - 1

====
